---- MODULE Spec2Model ----
(***************************************************************************)
(* A model of ssh_connect.py: the SSHClient class (credential resolution   *)
(* from arguments, a .env file and the process environment; connect, run,  *)
(* interactive_shell, close, scoped enter/exit) and the main() entry point.*)
(*                                                                         *)
(* Text is a sequence of one-character strings, bytes and code points are  *)
(* integers, and an optional value (Python's None or a value) is the empty *)
(* tuple or a one-element tuple.                                           *)
(***************************************************************************)
EXTENDS Integers, Sequences, FiniteSets, TLC

VARIABLES
    args,        \* the constructor's keyword arguments
    dotenv,      \* the KEY=VALUE pairs of the .env file load_dotenv reads
    environ,     \* os.environ
    self,        \* the SSHClient's attributes host, user, password, key_path, port
    _client,     \* self._client: None or the paramiko client it refers to
    sessions,    \* every paramiko.SSHClient object ever created, and its state
    closeCalls,  \* how often close() was called on each paramiko client
    ret,         \* the outcome of the last call: what it returned or raised
    remote,      \* the streams the remote command writes: stdout, stderr
    channel,     \* the shell channel: closed or not, bytes buffered for recv
    sh,          \* the frame of interactive_shell: position and bookkeeping
    mn           \* the frame of main(): position, argv, report, exit status

vars == <<args, dotenv, environ, self, _client, sessions, closeCalls, ret,
          remote, channel, sh, mn>>

None == <<>>
Some(v) == <<v>>

----------------------------------------------------------------------------
(* Bounds of the model.                                                    *)

\* longest remote standard-output stream run() reads, in bytes
MaxOut == 3
\* paramiko clients one SSHClient creates in a run of the model
MaxSessions == 3
\* blocks of remote output that arrive during one interactive_shell call
MaxArrivals == 2

----------------------------------------------------------------------------
(* Text helpers: Python's str.strip, str.lower, int() and bytes.decode.    *)

Upper == <<"A","B","C","D","E","F","G","H","I","J","K","L","M",
           "N","O","P","Q","R","S","T","U","V","W","X","Y","Z">>
Lowercase == <<"a","b","c","d","e","f","g","h","i","j","k","l","m",
               "n","o","p","q","r","s","t","u","v","w","x","y","z">>

\* str.lower on one character
LowerChar(c) ==
    IF \E i \in 1..26 : Upper[i] = c
    THEN Lowercase[CHOOSE i \in 1..26 : Upper[i] = c]
    ELSE c

lower(s) == [i \in 1..Len(s) |-> LowerChar(s[i])]

\* the characters str.strip removes, as characters and as code points
Whitespace == {" ", "\t", "\n", "\r", "\f"}
WhitespaceCodes == {9, 10, 11, 12, 13, 28, 29, 30, 31, 32, 133, 160}

\* s without its leading elements that are in ws
RECURSIVE lstrip(_, _)
lstrip(s, ws) ==
    IF s # <<>> /\ Head(s) \in ws THEN lstrip(Tail(s), ws) ELSE s

\* s without its trailing elements that are in ws
RECURSIVE rstrip(_, _)
rstrip(s, ws) ==
    IF s # <<>> /\ s[Len(s)] \in ws
    THEN rstrip(SubSeq(s, 1, Len(s) - 1), ws)
    ELSE s

\* str.strip(): both ends
strip(s, ws) == rstrip(lstrip(s, ws), ws)

Digits == <<"0","1","2","3","4","5","6","7","8","9">>
IsDigit(c) == \E i \in 1..10 : Digits[i] = c
DigitVal(c) == (CHOOSE i \in 1..10 : Digits[i] = c) - 1

RECURSIVE DigitsVal(_)
DigitsVal(s) ==
    IF s = <<>> THEN 0 ELSE 10 * DigitsVal(SubSeq(s, 1, Len(s) - 1)) + DigitVal(s[Len(s)])

\* int(s): surrounding whitespace ignored, an optional sign, then digits;
\* anything else raises ValueError
int(s) ==
    LET t == strip(s, Whitespace)
        signed == t # <<>> /\ Head(t) \in {"+", "-"}
        d == IF signed THEN Tail(t) ELSE t
    IN  IF d # <<>> /\ \A i \in 1..Len(d) : IsDigit(d[i])
        THEN [raised |-> None,
              value |-> IF signed /\ Head(t) = "-" THEN 0 - DigitsVal(d) ELSE DigitsVal(d)]
        ELSE [raised |-> Some("ValueError"), value |-> 0]

----------------------------------------------------------------------------
(* bytes.decode("utf-8"): the strict decoder raises UnicodeDecodeError on  *)
(* the first ill-formed sequence; with errors="replace" each maximal       *)
(* ill-formed part becomes U+FFFD and decoding goes on.                    *)

ReplacementChar == 65533

IsCont(b) == b >= 128 /\ b <= 191

\* the length of the sequence a lead byte announces; 0 for a byte that can
\* start no sequence (a continuation byte, 0xC0, 0xC1, 0xF5..0xFF)
SeqLen(b) ==
    IF b < 128 THEN 1
    ELSE IF b >= 194 /\ b <= 223 THEN 2
    ELSE IF b >= 224 /\ b <= 239 THEN 3
    ELSE IF b >= 240 /\ b <= 244 THEN 4
    ELSE 0

\* the second byte's range depends on the lead (no overlong forms, no
\* surrogates, nothing above U+10FFFF)
SecondOk(b1, b2) ==
    CASE b1 = 224 -> b2 >= 160 /\ b2 <= 191
      [] b1 = 237 -> b2 >= 128 /\ b2 <= 159
      [] b1 = 240 -> b2 >= 144 /\ b2 <= 191
      [] b1 = 244 -> b2 >= 128 /\ b2 <= 143
      [] OTHER -> IsCont(b2)

\* how many bytes from position i on form a well-formed prefix of a sequence
GoodLen(bs, i) ==
    LET n == SeqLen(bs[i])
        c1 == i + 1 <= Len(bs) /\ SecondOk(bs[i], bs[i + 1])
        c2 == c1 /\ i + 2 <= Len(bs) /\ IsCont(bs[i + 2])
        c3 == c2 /\ i + 3 <= Len(bs) /\ IsCont(bs[i + 3])
    IN  IF n <= 1 THEN n
        ELSE IF ~c1 THEN 1
        ELSE IF n = 2 THEN 2
        ELSE IF ~c2 THEN 2
        ELSE IF n = 3 THEN 3
        ELSE IF ~c3 THEN 3
        ELSE 4

\* the code point of the well-formed sequence of n bytes at position i
CodePoint(bs, i, n) ==
    CASE n = 1 -> bs[i]
      [] n = 2 -> (bs[i] - 192) * 64 + (bs[i + 1] - 128)
      [] n = 3 -> (bs[i] - 224) * 4096 + (bs[i + 1] - 128) * 64 + (bs[i + 2] - 128)
      [] OTHER -> (bs[i] - 240) * 262144 + (bs[i + 1] - 128) * 4096
                  + (bs[i + 2] - 128) * 64 + (bs[i + 3] - 128)

RECURSIVE DecodeFrom(_, _, _)
DecodeFrom(bs, i, errors) ==
    IF i > Len(bs) THEN [raised |-> None, text |-> <<>>]
    ELSE LET n == SeqLen(bs[i])
             k == GoodLen(bs, i)
         IN  IF n > 0 /\ k = n
             THEN LET rest == DecodeFrom(bs, i + n, errors)
                  IN  [raised |-> rest.raised,
                       text |-> <<CodePoint(bs, i, n)>> \o rest.text]
             ELSE IF errors = "replace"
             THEN LET rest == DecodeFrom(bs, i + (IF k = 0 THEN 1 ELSE k), errors)
                  IN  [raised |-> rest.raised,
                       text |-> <<ReplacementChar>> \o rest.text]
             ELSE [raised |-> Some("UnicodeDecodeError"), text |-> <<>>]

decode(bs, errors) == DecodeFrom(bs, 1, errors)

----------------------------------------------------------------------------
(* SSHClient.__init__: load the .env file, resolve each attribute from the *)
(* argument or the environment, validate, expand the key path.             *)

Keys == {"SSH_HOST", "SSH_USER", "SSH_PASSWORD", "SSH_KEY_PATH", "SSH_PORT"}
Fields == {"host", "user", "password", "key_path", "port"}

\* the environment variable each attribute is read from
KeyOf(field) ==
    CASE field = "host" -> "SSH_HOST"
      [] field = "user" -> "SSH_USER"
      [] field = "password" -> "SSH_PASSWORD"
      [] field = "key_path" -> "SSH_KEY_PATH"
      [] OTHER -> "SSH_PORT"

\* the value of os.getenv("SSH_PORT", "22") when the variable is unset
DefaultPort == <<"2", "2">>

\* the home directory os.path.expanduser substitutes
HomeDir == <<"/", "r">>

\* load_dotenv called with override=True: the file replaces what os.environ has
load_dotenv_override(file, env) ==
    [k \in Keys |-> IF file[k] # None THEN file[k] ELSE env[k]]

\* load_dotenv(path) with the library's default override=False: a key of the
\* file is put into os.environ only if os.environ does not have it yet
load_dotenv(file, env) ==
    [k \in Keys |-> IF env[k] # None THEN env[k] ELSE file[k]]

\* os.getenv(key)
getenv(env, key) == env[key]

\* Python's "a or b" on an optional string: a unless it is None or ""
OrStr(a, b) == IF a # None /\ a[1] # <<>> THEN a ELSE b

\* truth value of an optional string / an optional integer
TruthyStr(a) == a # None /\ a[1] # <<>>
TruthyInt(a) == a # None /\ a[1] # 0

\* os.path.expanduser: a leading "~" alone or before "/" becomes the home
\* directory; every path of the model that starts with "~" has that form
expanduser(p) ==
    IF p # <<>> /\ p[1] = "~" /\ (Len(p) = 1 \/ p[2] = "/")
    THEN HomeDir \o Tail(p)
    ELSE p

\* the constructor: the attributes it assigned, os.environ as it left it,
\* and the ValueError it raised, if any
__init__(a, file, env) ==
    LET env1 == load_dotenv(file, env)
        host == OrStr(a.host, getenv(env1, "SSH_HOST"))
        user == OrStr(a.user, getenv(env1, "SSH_USER"))
        password == OrStr(a.password, getenv(env1, "SSH_PASSWORD"))
        key_path == OrStr(a.key_path, getenv(env1, "SSH_KEY_PATH"))
        portText == IF getenv(env1, "SSH_PORT") # None
                    THEN getenv(env1, "SSH_PORT")[1] ELSE DefaultPort
        parsed == int(portText)
        portRaised == ~TruthyInt(a.port) /\ parsed.raised # None
        port == IF TruthyInt(a.port) THEN a.port
                ELSE IF portRaised THEN None ELSE Some(parsed.value)
        msg == IF portRaised THEN "invalid literal for int()"
               ELSE IF ~TruthyStr(host) THEN "SSH_HOST not set"
               ELSE IF ~TruthyStr(user) THEN "SSH_USER not set"
               ELSE IF ~TruthyStr(password) /\ ~TruthyStr(key_path)
               THEN "SSH_PASSWORD or SSH_KEY_PATH required"
               ELSE ""
    IN  [environ |-> env1,
         raised |-> IF msg = "" THEN None ELSE Some("ValueError"),
         msg |-> msg,
         attrs |-> [host |-> host, user |-> user, password |-> password,
                    key_path |-> IF msg = "" /\ TruthyStr(key_path)
                                 THEN Some(expanduser(key_path[1]))
                                 ELSE key_path,
                    port |-> port]]

\* the attributes of an object whose constructor has not run
NoAttrs == [f \in Fields |-> None]

\* the values each source may hold for each attribute
ArgVals ==
    [host |-> {None, Some(<<>>), Some(<<"h", "a">>)},
     user |-> {None, Some(<<"u", "a">>)},
     password |-> {None, Some(<<"p", "a">>)},
     key_path |-> {None, Some(<<"~", "/", "a">>)},
     port |-> {None, Some(0), Some(2201)}]

FileVals ==
    [SSH_HOST |-> {None, Some(<<"h", "f">>)},
     SSH_USER |-> {None, Some(<<"u", "f">>)},
     SSH_PASSWORD |-> {None, Some(<<"p", "f">>)},
     SSH_KEY_PATH |-> {None, Some(<<"~", "/", "f">>)},
     SSH_PORT |-> {None, Some(<<"2", "2", "0", "2">>)}]

EnvVals ==
    [SSH_HOST |-> {None, Some(<<>>), Some(<<"h", "e">>)},
     SSH_USER |-> {None, Some(<<"u", "e">>)},
     SSH_PASSWORD |-> {None, Some(<<"p", "e">>)},
     SSH_KEY_PATH |-> {None, Some(<<"/", "e">>)},
     SSH_PORT |-> {None, Some(<<"2", "2", "0", "3">>), Some(<<"x">>)}]

ArgSets ==
    [host : ArgVals.host, user : ArgVals.user, password : ArgVals.password,
     key_path : ArgVals.key_path, port : ArgVals.port]
FileSets ==
    [SSH_HOST : FileVals.SSH_HOST, SSH_USER : FileVals.SSH_USER,
     SSH_PASSWORD : FileVals.SSH_PASSWORD, SSH_KEY_PATH : FileVals.SSH_KEY_PATH,
     SSH_PORT : FileVals.SSH_PORT]
EnvSets ==
    [SSH_HOST : EnvVals.SSH_HOST, SSH_USER : EnvVals.SSH_USER,
     SSH_PASSWORD : EnvVals.SSH_PASSWORD, SSH_KEY_PATH : EnvVals.SSH_KEY_PATH,
     SSH_PORT : EnvVals.SSH_PORT]

\* SSHClient() called with no argument, as main() calls it
NoArgs == [f \in Fields |-> None]
\* an environment or a file that sets none of the keys
NoKeys == [k \in Keys |-> None]

----------------------------------------------------------------------------
(* The paramiko clients, and the operations on self._client.               *)

SessionIds == 1..MaxSessions

\* a paramiko.SSHClient object: not yet created ("none"), created but not
\* connected ("created"), connected ("open"), closed ("closed"); auth is the
\* credential connect() passed
NoSession == [state |-> "none", auth |-> ""]

\* what a call returned or raised
NoCall == [op |-> "none", raised |-> None, value |-> None]
Returned(op, value) == [op |-> op, raised |-> None, value |-> value]
Raised(op, exc) == [op |-> op, raised |-> Some(exc), value |-> None]

\* the outcomes of paramiko's connect(): success or one of the errors main()
\* names
ConnectOutcomes == {"ok", "AuthenticationException", "SSHException", "socket.error"}

\* the number of paramiko clients created so far
Created(ss) == Cardinality({i \in DOMAIN ss : ss[i].state # "none"})

\* connect_kwargs: the key file if a key path is set, else the password
connect_kwargs(attrs) ==
    IF TruthyStr(attrs.key_path) THEN "key_filename" ELSE "password"

\* connect(): a new paramiko client is created and stored in self._client,
\* whatever self._client held, and then connected; an error of the
\* connection leaves the new client stored
connect(attrs, ss, outcome) ==
    LET id == Created(ss) + 1
    IN  [client |-> Some(id),
         sessions |-> [ss EXCEPT ![id] =
                          [state |-> IF outcome = "ok" THEN "open" ELSE "created",
                           auth |-> connect_kwargs(attrs)]],
         raised |-> IF outcome = "ok" THEN None ELSE Some(outcome)]

\* a close() that closes the client and keeps the reference to it
close_keep_client(cl, ss, cc) ==
    IF cl # None
    THEN [client |-> cl,
          sessions |-> [ss EXCEPT ![cl[1]].state = "closed"],
          closeCalls |-> [cc EXCEPT ![cl[1]] = cc[cl[1]] + 1]]
    ELSE [client |-> cl, sessions |-> ss, closeCalls |-> cc]

\* close(): if self._client is set, close it and forget it
close(cl, ss, cc) ==
    IF cl # None
    THEN [client |-> None,
          sessions |-> [ss EXCEPT ![cl[1]].state = "closed"],
          closeCalls |-> [cc EXCEPT ![cl[1]] = cc[cl[1]] + 1]]
    ELSE [client |-> cl, sessions |-> ss, closeCalls |-> cc]

----------------------------------------------------------------------------
(* run(command): connect if there is no client, execute, read and decode   *)
(* both streams, strip.                                                    *)

\* the bytes a remote stream is made of: space, "a", the two bytes of
\* U+00E9, and 0xFF, which no UTF-8 text contains
OutBytes == {32, 97, 195, 169, 255}
OutStreams == UNION {[1..n -> OutBytes] : n \in 0..MaxOut}
\* standard-error streams: empty, "e", an undecodable byte
ErrStreams == {<<>>, <<101>>, <<255>>}

\* exec_command and the reads: success, a failure of the SSH layer, the
\* timeout of a read
ExecOutcomes == {"ok", "SSHException", "socket.timeout"}

LineFeed == 10

\* a remote command that writes nothing
Silent == [stdout |-> <<>>, stderr |-> <<>>]

\* the commands a user of the class runs: output with a leading space, an
\* undecodable byte, output and errors
ClientRemotes ==
    {[stdout |-> <<32, 97>>, stderr |-> <<>>],
     [stdout |-> <<255>>, stderr |-> <<>>],
     [stdout |-> <<97>>, stderr |-> <<101>>]}

\* a run() that strips the end of the text only
run_result_rstrip(out, err) ==
    LET output == decode(out, "strict")
        errors == decode(err, "strict")
    IN  IF output.raised # None THEN [raised |-> output.raised, value |-> <<>>]
        ELSE IF errors.raised # None THEN [raised |-> errors.raised, value |-> <<>>]
        ELSE IF errors.text # <<>>
        THEN [raised |-> None,
              value |-> rstrip(output.text \o <<LineFeed>> \o errors.text,
                               WhitespaceCodes)]
        ELSE [raised |-> None, value |-> rstrip(output.text, WhitespaceCodes)]

\* the text run() builds from the two streams: both decoded strictly, then
\* joined when there are errors, then stripped at both ends
run_result(out, err) ==
    LET output == decode(out, "strict")
        errors == decode(err, "strict")
    IN  IF output.raised # None THEN [raised |-> output.raised, value |-> <<>>]
        ELSE IF errors.raised # None THEN [raised |-> errors.raised, value |-> <<>>]
        ELSE IF errors.text # <<>>
        THEN [raised |-> None,
              value |-> strip(output.text \o <<LineFeed>> \o errors.text,
                              WhitespaceCodes)]
        ELSE [raised |-> None, value |-> strip(output.text, WhitespaceCodes)]

\* run(): the client and the sessions it leaves, and what it returns or raises
run(attrs, cl, ss, connectOutcome, execOutcome, out, err) ==
    LET c == IF cl = None THEN connect(attrs, ss, connectOutcome)
             ELSE [client |-> cl, sessions |-> ss, raised |-> None]
        rr == run_result(out, err)
    IN  [client |-> c.client,
         sessions |-> c.sessions,
         ret |-> IF c.raised # None THEN Raised("run", c.raised[1])
                 ELSE IF c.sessions[c.client[1]].state # "open"
                 THEN Raised("run", "SSHException")
                 ELSE IF execOutcome # "ok" THEN Raised("run", execOutcome)
                 ELSE IF rr.raised # None THEN Raised("run", rr.raised[1])
                 ELSE Returned("run", Some(rr.value))]

----------------------------------------------------------------------------
(* interactive_shell(): the relay loop between the channel and the         *)
(* keyboard.                                                               *)

\* bytes one channel.recv asks for: in the loop, and in the fallback's drain
RecvChunk == 1024
DrainChunk == 4096

\* sizes of the blocks of output the remote side produces
ArrivalSizes == {1, RecvChunk, RecvChunk + 1}

\* what standard input delivers to one read: a line with its newline, the
\* rest of the input when it ends without a newline, or nothing at its end
Lines ==
    {<<"e", "x", "i", "t", "\n">>,
     <<" ", "E", "x", "i", "T", " ", "\n">>,
     <<"E", "X", "I", "T", "\n">>,
     <<"e", "x", "i", "t">>,
     <<"l", "s", "\n">>,
     <<"l", "s">>,
     <<"e", "x", "i", "t", "s", "\n">>,
     <<>>}

\* the places of the loop, and the frame of a call that is not running.
\* selectOk: select works on standard input; arrivals: blocks the remote
\* has written; atTop: bytes ready when the iteration began; shown: bytes
\* read and printed before the poll; pollRaised: select raised in this
\* iteration; line: what the last read delivered; sent: what was passed to
\* channel.send after it; end: why the loop ended
LoopPcs == {"recv", "poll", "fb_input", "fb_drain"}
ShIdle ==
    [pc |-> "idle", selectOk |-> TRUE, arrivals |-> 0, atTop |-> 0, shown |-> 0,
     pollRaised |-> FALSE, line |-> None, sent |-> None, end |-> ""]
NoChannel == [closed |-> FALSE, ready |-> 0]

\* the comparison without lower(): cmd.strip() == "exit"
IsExitLine_case_sensitive(cmd) == strip(cmd, Whitespace) = <<"e", "x", "i", "t">>

\* cmd.strip().lower() == "exit"
IsExitLine(cmd) == lower(strip(cmd, Whitespace)) = <<"e", "x", "i", "t">>

\* the number of bytes channel.recv(nbytes) returns when ready are buffered
recv(ready, nbytes) == IF ready < nbytes THEN ready ELSE nbytes

\* the loop's recv asking for the drain's chunk size
loop_recv_drain_chunk(ready) == IF ready > 0 THEN recv(ready, DrainChunk) ELSE 0

\* lines 114-116: one recv of at most RecvChunk bytes if any are ready
loop_recv(ready) == IF ready > 0 THEN recv(ready, RecvChunk) ELSE 0

\* a poll branch that also leaves the loop at the end of input
loop_poll_eof_break(frame, chan, ready, l) ==
    IF ~frame.selectOk
    THEN [frame EXCEPT !.pc = "fb_input", !.pollRaised = TRUE]
    ELSE IF ~ready THEN [frame EXCEPT !.pc = "recv"]
    ELSE IF IsExitLine(l) \/ l = <<>>
    THEN [frame EXCEPT !.pc = "returned", !.end = "exit", !.line = Some(l)]
    ELSE [frame EXCEPT !.pc = IF chan.closed THEN "fb_input" ELSE "recv",
                       !.line = Some(l), !.sent = Some(l)]

\* lines 119-125: poll standard input; when a line is ready read it, end the
\* loop on an exit line, otherwise send it; an OSError of select or of send
\* leads to the fallback
loop_poll(frame, chan, ready, l) ==
    IF ~frame.selectOk
    THEN [frame EXCEPT !.pc = "fb_input", !.pollRaised = TRUE]
    ELSE IF ~ready THEN [frame EXCEPT !.pc = "recv"]
    ELSE IF IsExitLine(l)
    THEN [frame EXCEPT !.pc = "returned", !.end = "exit", !.line = Some(l)]
    ELSE [frame EXCEPT !.pc = IF chan.closed THEN "fb_input" ELSE "recv",
                       !.line = Some(l), !.sent = Some(l)]

\* input(): the line without its newline; at the end of input it raises
input(l) ==
    IF l = <<>> THEN [raised |-> Some("EOFError"), value |-> <<>>]
    ELSE [raised |-> None,
          value |-> IF l[Len(l)] = "\n" THEN SubSeq(l, 1, Len(l) - 1) ELSE l]

\* lines 127-130: a blocking read; end the loop on an exit line, otherwise
\* send the line and a newline; an error here leaves interactive_shell
loop_fallback(frame, chan, l) ==
    LET cmd == input(l)
    IN  IF cmd.raised # None
        THEN [frame EXCEPT !.pc = "raised", !.end = cmd.raised[1],
                           !.line = None, !.sent = None]
        ELSE IF IsExitLine(cmd.value)
        THEN [frame EXCEPT !.pc = "returned", !.end = "exit",
                           !.line = Some(l), !.sent = None]
        ELSE IF chan.closed
        THEN [frame EXCEPT !.pc = "raised", !.end = "OSError", !.line = Some(l),
                           !.sent = Some(cmd.value \o <<"\n">>)]
        ELSE [frame EXCEPT !.pc = "fb_drain", !.line = Some(l),
                           !.sent = Some(cmd.value \o <<"\n">>)]

----------------------------------------------------------------------------
(* The calls, as steps on the state. A call is made only when no           *)
(* interactive_shell is running: the program has one thread.               *)

\* SSHClient(...): the constructor on the arguments, the file and os.environ
ConstructCall ==
    LET r == __init__(args, dotenv, environ)
    IN  /\ self' = r.attrs
        /\ environ' = r.environ
        /\ ret' = IF r.raised = None THEN Returned("__init__", None)
                  ELSE Raised("__init__", r.raised[1])
        /\ UNCHANGED <<args, dotenv, _client, sessions, closeCalls, remote, channel, sh>>

\* connect(), also as the body of __enter__
ConnectCall(op) ==
    /\ sh.pc = "idle"
    /\ Created(sessions) < MaxSessions
    /\ \E outcome \in ConnectOutcomes :
         LET c == connect(self, sessions, outcome)
         IN  /\ _client' = c.client
             /\ sessions' = c.sessions
             /\ ret' = IF c.raised = None THEN Returned(op, None)
                       ELSE Raised(op, c.raised[1])
    /\ UNCHANGED <<args, dotenv, environ, self, closeCalls, remote, channel, sh>>

\* close(), also as the body of __exit__
CloseCall ==
    /\ sh.pc = "idle"
    /\ LET c == close(_client, sessions, closeCalls)
       IN  /\ _client' = c.client
           /\ sessions' = c.sessions
           /\ closeCalls' = c.closeCalls
    /\ UNCHANGED <<args, dotenv, environ, self, remote, channel, sh>>

\* run(command)
RunCall ==
    /\ sh.pc = "idle"
    /\ _client # None \/ Created(sessions) < MaxSessions
    /\ \E co \in (IF _client = None THEN ConnectOutcomes ELSE {"ok"}),
          eo \in ExecOutcomes :
         LET r == run(self, _client, sessions, co, eo, remote.stdout, remote.stderr)
         IN  /\ _client' = r.client
             /\ sessions' = r.sessions
             /\ ret' = r.ret
    /\ UNCHANGED <<args, dotenv, environ, self, closeCalls, remote, channel, sh>>

\* interactive_shell() up to the loop (lines 101-106): connect if there is
\* no client, open the shell channel; whether select works on standard input
\* is a property of the platform
ShellCall ==
    /\ sh.pc = "idle"
    /\ _client # None \/ Created(sessions) < MaxSessions
    /\ \E co \in (IF _client = None THEN ConnectOutcomes ELSE {"ok"}),
          so \in {"ok", "SSHException"}, sel \in BOOLEAN :
         LET c == IF _client = None THEN connect(self, sessions, co)
                  ELSE [client |-> _client, sessions |-> sessions, raised |-> None]
             exc == IF c.raised # None THEN c.raised
                    ELSE IF c.sessions[c.client[1]].state # "open" \/ so # "ok"
                    THEN Some("SSHException")
                    ELSE None
         IN  /\ _client' = c.client
             /\ sessions' = c.sessions
             /\ ret' = IF exc = None THEN Returned("interactive_shell", None)
                       ELSE Raised("interactive_shell", exc[1])
             /\ sh' = IF exc = None
                      THEN [ShIdle EXCEPT !.pc = "recv", !.selectOk = sel]
                      ELSE ShIdle
    /\ channel' = NoChannel
    /\ UNCHANGED <<args, dotenv, environ, self, closeCalls, remote>>

\* interactive_shell() leaves: it returns, or the error goes to the caller
ShellReturn ==
    /\ sh.pc \in {"returned", "raised"}
    /\ ret' = IF sh.pc = "raised" THEN Raised("interactive_shell", sh.end)
              ELSE Returned("interactive_shell", None)
    /\ sh' = ShIdle
    /\ channel' = NoChannel
    /\ UNCHANGED <<args, dotenv, environ, self, _client, sessions, closeCalls, remote>>

\* the top of an iteration: show one chunk of remote output if any is ready
loop_top ==
    /\ sh.pc = "recv"
    /\ LET n == loop_recv(channel.ready)
       IN  /\ channel' = [channel EXCEPT !.ready = @ - n]
           /\ sh' = [sh EXCEPT !.pc = "poll", !.atTop = channel.ready, !.shown = n,
                               !.pollRaised = FALSE, !.line = None, !.sent = None]
    /\ UNCHANGED <<args, dotenv, environ, self, _client, sessions, closeCalls,
                   ret, remote, mn>>

\* the poll of standard input and what follows from it
loop_input ==
    /\ sh.pc = "poll"
    /\ \E ready \in BOOLEAN, l \in Lines : sh' = loop_poll(sh, channel, ready, l)
    /\ UNCHANGED <<args, dotenv, environ, self, _client, sessions, closeCalls,
                   ret, remote, channel, mn>>

\* the fallback's blocking read
loop_fallback_input ==
    /\ sh.pc = "fb_input"
    /\ \E l \in Lines : sh' = loop_fallback(sh, channel, l)
    /\ UNCHANGED <<args, dotenv, environ, self, _client, sessions, closeCalls,
                   ret, remote, channel, mn>>

\* lines 133-136: after the pause, recv while output is ready
loop_fallback_drain ==
    /\ sh.pc = "fb_drain"
    /\ IF channel.ready > 0
       THEN /\ channel' = [channel EXCEPT !.ready = @ - recv(@, DrainChunk)]
            /\ sh' = sh
       ELSE /\ channel' = channel
            /\ sh' = [sh EXCEPT !.pc = "recv"]
    /\ UNCHANGED <<args, dotenv, environ, self, _client, sessions, closeCalls,
                   ret, remote, mn>>

\* lines 138-139: KeyboardInterrupt anywhere in the loop ends it
loop_interrupt ==
    /\ sh.pc \in LoopPcs
    /\ sh' = [sh EXCEPT !.pc = "returned", !.end = "interrupt",
                        !.line = None, !.sent = None]
    /\ UNCHANGED <<args, dotenv, environ, self, _client, sessions, closeCalls,
                   ret, remote, channel, mn>>

\* the remote side writes a block of output to the channel
RemoteOutput ==
    /\ sh.pc \in LoopPcs
    /\ ~channel.closed
    /\ sh.arrivals < MaxArrivals
    /\ \E n \in ArrivalSizes : channel' = [channel EXCEPT !.ready = @ + n]
    /\ sh' = [sh EXCEPT !.arrivals = @ + 1]
    /\ UNCHANGED <<args, dotenv, environ, self, _client, sessions, closeCalls,
                   ret, remote, mn>>

\* the remote side closes the channel
RemoteClose ==
    /\ sh.pc \in LoopPcs
    /\ ~channel.closed
    /\ channel' = [channel EXCEPT !.closed = TRUE]
    /\ UNCHANGED <<args, dotenv, environ, self, _client, sessions, closeCalls,
                   ret, remote, sh, mn>>

----------------------------------------------------------------------------
(* main(): construct, then inside "with ssh:" run the command or the       *)
(* shell; the except clauses report and exit with status 1.                *)

MnNone == [pc |-> "none", argv |-> FALSE, report |-> "", status |-> None]

\* the except clauses of main(), in their order; UnicodeDecodeError is a
\* ValueError, AuthenticationException an SSHException, socket.timeout an
\* OSError, which socket.error names; anything else ends the process with a
\* traceback
report_of(exc) ==
    IF exc \in {"ValueError", "UnicodeDecodeError"} THEN "Configuration error"
    ELSE IF exc = "AuthenticationException" THEN "Authentication failed"
    ELSE IF exc = "SSHException" THEN "SSH error"
    ELSE IF exc \in {"socket.error", "socket.timeout", "OSError"} THEN "Connection error"
    ELSE "Traceback"

\* main() ends: status 0 without an error, else the report and status 1
main_end(frame, raised) ==
    IF raised = None
    THEN [frame EXCEPT !.pc = "exited", !.status = Some(0)]
    ELSE [frame EXCEPT !.pc = "exited", !.status = Some(1),
                       !.report = report_of(raised[1])]

\* ssh = SSHClient()
main_construct ==
    /\ mn.pc = "start"
    /\ ConstructCall
    /\ mn' = IF ret'.raised = None THEN [mn EXCEPT !.pc = "enter"]
             ELSE main_end(mn, ret'.raised)

\* "with ssh:" calls __enter__, which connects; when it raises the block is
\* not entered and __exit__ is not called
main_enter ==
    /\ mn.pc = "enter"
    /\ ConnectCall("__enter__")
    /\ mn' = IF ret'.raised = None THEN [mn EXCEPT !.pc = "body"]
             ELSE main_end(mn, ret'.raised)

\* output = ssh.run(command)
main_run ==
    /\ mn.pc = "body" /\ mn.argv
    /\ RunCall
    /\ mn' = [mn EXCEPT !.pc = "exit_block"]

\* ssh.interactive_shell()
main_shell ==
    /\ mn.pc = "body" /\ ~mn.argv
    /\ ShellCall
    /\ mn' = [mn EXCEPT !.pc = IF sh'.pc = "idle" THEN "exit_block" ELSE "in_shell"]

main_shell_return ==
    /\ mn.pc = "in_shell"
    /\ ShellReturn
    /\ mn' = [mn EXCEPT !.pc = "exit_block"]

\* the block is left: __exit__ closes, and an error of the body goes on to
\* the except clauses
main_exit ==
    /\ mn.pc = "exit_block"
    /\ CloseCall
    /\ UNCHANGED ret
    /\ mn' = main_end(mn, ret.raised)

----------------------------------------------------------------------------
(* The calls a user of the class makes, in any order.                      *)

Construct ==
    /\ mn.pc = "none" /\ ret.op = "none"
    /\ ConstructCall
    /\ UNCHANGED mn

Connect == mn.pc = "none" /\ ConnectCall("connect") /\ UNCHANGED mn

Enter == mn.pc = "none" /\ ConnectCall("__enter__") /\ UNCHANGED mn

Close ==
    /\ mn.pc = "none"
    /\ CloseCall
    /\ ret' = Returned("close", None)
    /\ UNCHANGED mn

Exit ==
    /\ mn.pc = "none"
    /\ CloseCall
    /\ ret' = Returned("__exit__", None)
    /\ UNCHANGED mn

Run == mn.pc = "none" /\ RunCall /\ UNCHANGED mn

InteractiveShell == mn.pc = "none" /\ ShellCall /\ UNCHANGED mn

InteractiveShellReturn == mn.pc = "none" /\ ShellReturn /\ UNCHANGED mn

----------------------------------------------------------------------------
(* Specifications.                                                         *)

NoSessions == [i \in SessionIds |-> NoSession]
NoCloseCalls == [i \in SessionIds |-> 0]

\* .env files for the runs of main() and of the class: a key, a password,
\* no host
KeyFile ==
    [NoKeys EXCEPT !.SSH_HOST = Some(<<"h", "f">>), !.SSH_USER = Some(<<"u", "f">>),
                   !.SSH_KEY_PATH = Some(<<"~", "/", "f">>)]
PasswordFile ==
    [NoKeys EXCEPT !.SSH_HOST = Some(<<"h", "f">>), !.SSH_USER = Some(<<"u", "f">>),
                   !.SSH_PASSWORD = Some(<<"p", "f">>)]
NoHostFile == [NoKeys EXCEPT !.SSH_USER = Some(<<"u", "f">>)]

\* the constructor, on every combination of the three sources
InitResolve ==
    /\ args \in ArgSets
    /\ dotenv \in FileSets
    /\ environ \in EnvSets
    /\ self = NoAttrs
    /\ _client = None
    /\ sessions = NoSessions
    /\ closeCalls = NoCloseCalls
    /\ ret = NoCall
    /\ remote = Silent
    /\ channel = NoChannel
    /\ sh = ShIdle
    /\ mn = MnNone

NextResolve == Construct

SpecResolve == InitResolve /\ [][NextResolve]_vars

\* a constructed SSHClient and every sequence of calls on it
Init ==
    /\ args = NoArgs
    /\ dotenv \in {KeyFile, PasswordFile}
    /\ environ = __init__(args, dotenv, NoKeys).environ
    /\ self = __init__(args, dotenv, NoKeys).attrs
    /\ _client = None
    /\ sessions = NoSessions
    /\ closeCalls = NoCloseCalls
    /\ ret = Returned("__init__", None)
    /\ remote \in ClientRemotes
    /\ channel = NoChannel
    /\ sh = ShIdle
    /\ mn = MnNone

Next ==
    \/ Connect
    \/ Enter
    \/ Close
    \/ Exit
    \/ Run
    \/ InteractiveShell
    \/ InteractiveShellReturn
    \/ loop_top
    \/ loop_input
    \/ loop_fallback_input
    \/ loop_fallback_drain
    \/ loop_interrupt
    \/ RemoteOutput
    \/ RemoteClose

Spec == Init /\ [][Next]_vars

\* one execution of main()
InitMain ==
    /\ args = NoArgs
    /\ dotenv \in {KeyFile, PasswordFile, NoHostFile}
    /\ environ \in {NoKeys, [NoKeys EXCEPT !.SSH_HOST = Some(<<"h", "e">>)]}
    /\ self = NoAttrs
    /\ _client = None
    /\ sessions = NoSessions
    /\ closeCalls = NoCloseCalls
    /\ ret = NoCall
    /\ mn \in {[MnNone EXCEPT !.pc = "start", !.argv = a] : a \in BOOLEAN}
    /\ remote \in (IF mn.argv THEN [stdout : OutStreams, stderr : ErrStreams]
                   ELSE {Silent})
    /\ channel = NoChannel
    /\ sh = ShIdle

NextMain ==
    \/ main_construct
    \/ main_enter
    \/ main_run
    \/ main_shell
    \/ main_shell_return
    \/ main_exit
    \/ loop_top
    \/ loop_input
    \/ loop_fallback_input
    \/ loop_fallback_drain
    \/ loop_interrupt
    \/ RemoteOutput
    \/ RemoteClose

SpecMain == InitMain /\ [][NextMain]_vars

----------------------------------------------------------------------------
(* Properties.                                                             *)

StringFields == {"host", "user", "password", "key_path"}

\* a step in which the constructor runs
Constructs == ret.op = "none" /\ ret'.op = "__init__"

\* what the constructor stores for a string attribute resolved to v: the key
\* path is expanded once validation has passed
Stored(field, v, valid) ==
    IF field = "key_path" /\ valid /\ v # None /\ v[1] # <<>>
    THEN Some(expanduser(v[1]))
    ELSE v

\* the port stored for the text of SSH_PORT: its value, or nothing and a
\* ValueError when it is no integer
PortStored(explicit, text, attrs, outcome) ==
    IF explicit # None /\ explicit[1] # 0 THEN attrs.port = explicit
    ELSE IF int(text).raised = None THEN attrs.port = Some(int(text).value)
    ELSE attrs.port = None /\ outcome.raised = Some("ValueError")

\* argument, then file, then environment
FileFirst(a, file, env) ==
    IF a # None /\ a[1] # <<>> THEN a ELSE IF file # None THEN file ELSE env

\* argument, then environment, then file
EnvironmentFirst(a, file, env) ==
    IF a # None /\ a[1] # <<>> THEN a ELSE IF env # None THEN env ELSE file

\* C1 as stated: every attribute the constructor resolves is the explicit
\* argument if it is non-empty, otherwise the value of the settings file if
\* the file has one, otherwise the value of the process environment.
C1_FileBeatsEnvironment ==
    [][Constructs =>
          /\ \A f \in StringFields :
                self'[f] = Stored(f, FileFirst(args[f], dotenv[KeyOf(f)],
                                               environ[KeyOf(f)]),
                                  ret'.raised = None)
          /\ LET t == FileFirst(None, dotenv.SSH_PORT, environ.SSH_PORT)
             IN  PortStored(args.port, IF t = None THEN DefaultPort ELSE t[1],
                            self', ret')]_vars

\* C1 as amended: every attribute the constructor resolves is the explicit
\* argument if it is non-empty (for the port: not zero), otherwise the value
\* the process environment already has for the variable, even an empty one,
\* otherwise the value of the settings file; the port is the integer value of
\* that text, or of "22" when neither has one.
C1_EnvironmentBeatsFile ==
    [][Constructs =>
          /\ \A f \in StringFields :
                self'[f] = Stored(f, EnvironmentFirst(args[f], dotenv[KeyOf(f)],
                                                      environ[KeyOf(f)]),
                                  ret'.raised = None)
          /\ LET t == EnvironmentFirst(None, dotenv.SSH_PORT, environ.SSH_PORT)
             IN  PortStored(args.port, IF t = None THEN DefaultPort ELSE t[1],
                            self', ret')]_vars

\* the file and the environment name different hosts, no argument is given,
\* and the constructor has taken the environment's
C1_Witness ==
    /\ ret.op = "__init__"
    /\ args.host = None
    /\ dotenv.SSH_HOST = Some(<<"h", "f">>)
    /\ environ.SSH_HOST = Some(<<"h", "e">>)
    /\ self.host = Some(<<"h", "e">>)

\* C2: when main() has ended, close was called on every paramiko client that
\* connect created and stored.
C2_EveryClientClosedAtExit ==
    mn.pc = "exited" =>
        \A i \in SessionIds : sessions[i].state # "none" => closeCalls[i] >= 1

\* the lines of Lines that equal "exit" once surrounding whitespace is
\* removed and case is ignored
ExitLines ==
    {<<"e", "x", "i", "t", "\n">>,
     <<" ", "E", "x", "i", "T", " ", "\n">>,
     <<"E", "X", "I", "T", "\n">>,
     <<"e", "x", "i", "t">>}

C4_OnlyExitOrInterruptEndsLoop ==
    sh.pc \in {"returned", "raised"} =>
        sh.pc = "returned" /\ sh.end \in {"exit", "interrupt"}

\* C4 as amended: the loop ends with a normal return only by an interrupt or
\* by an exit line read in that step; it ends with an error only in the
\* fallback branch, by EOFError at the end of input or by OSError when the
\* line is sent on a closed channel. Nothing else ends it: not the end of
\* input in the poll branch, not the channel closing, not a failed send in
\* the poll branch.
C4_LoopEndings ==
    [][(sh.pc \in LoopPcs /\ sh'.pc \notin LoopPcs) =>
          \/ sh'.pc = "returned" /\ sh'.end = "interrupt"
          \/ /\ sh'.pc = "returned" /\ sh'.end = "exit"
             /\ sh.pc \in {"poll", "fb_input"}
             /\ sh'.line # None /\ sh'.line[1] \in ExitLines
          \/ /\ sh'.pc = "raised" /\ sh'.end = "EOFError"
             /\ sh.pc = "fb_input"
          \/ /\ sh'.pc = "raised" /\ sh'.end = "OSError"
             /\ sh.pc = "fb_input" /\ channel.closed
             /\ sh'.sent # None]_vars

\* a send in the fallback branch has failed and the error leaves
\* interactive_shell
C4_Witness == sh.pc = "raised" /\ sh.end = "OSError" /\ channel.closed

\* the text with the whitespace at its end removed, and nothing else
TrailingTrimmed(t) ==
    CHOOSE v \in {SubSeq(t, 1, j) : j \in 0..Len(t)} :
        /\ \A k \in (Len(v) + 1)..Len(t) : t[k] \in WhitespaceCodes
        /\ v = <<>> \/ v[Len(v)] \notin WhitespaceCodes

\* v is t without the whitespace at its two ends
BothEndsTrimmed(t, v) ==
    \E i \in 1..(Len(t) + 1), j \in 0..Len(t) :
        /\ v = SubSeq(t, i, j)
        /\ \A k \in 1..(i - 1) : t[k] \in WhitespaceCodes
        /\ \A k \in (j + 1)..Len(t) : t[k] \in WhitespaceCodes
        /\ v = <<>> \/ (v[1] \notin WhitespaceCodes /\ v[Len(v)] \notin WhitespaceCodes)

\* run() has returned a value for a command that wrote nothing to stderr
RunReturnedOutputOnly ==
    ret.op = "run" /\ ret.raised = None /\ remote.stderr = <<>>

\* C5 as stated: for a command with an empty standard error, run returns
\* the standard-output text with only its trailing whitespace removed.
C5_OnlyTrailingWhitespaceTrimmed ==
    RunReturnedOutputOnly =>
        ret.value = Some(TrailingTrimmed(decode(remote.stdout, "strict").text))

\* C5 as amended: for a command with an empty standard error, what run
\* returns is the standard-output text with the whitespace at both its ends
\* removed, the interior kept, and no error section.
C5_BothEndsTrimmedReturned ==
    RunReturnedOutputOnly =>
        /\ ret.value # None
        /\ BothEndsTrimmed(decode(remote.stdout, "strict").text, ret.value[1])

\* run has returned "a" for the output " a "
C5_Witness ==
    /\ RunReturnedOutputOnly
    /\ remote.stdout = <<32, 97, 32>>
    /\ ret.value = Some(<<97>>)

\* C6: no call raises a decode error to its caller, and main() reports none.
C6_DecodeErrorNeverSurfaces ==
    /\ ret.raised # Some("UnicodeDecodeError")
    /\ ~(mn.pc = "exited" /\ ret.raised = Some("UnicodeDecodeError")
         /\ mn.report # "")

\* C7: close and __exit__ never raise; after them the client holds no
\* session and the session it held is closed; no paramiko client is closed
\* twice; a close that follows a close changes nothing.
C7_CloseIdempotent ==
    [][(Close \/ Exit) =>
          /\ ret'.raised = None
          /\ _client' = None
          /\ _client # None => sessions'[_client[1]].state = "closed"
          /\ \A i \in SessionIds : closeCalls'[i] <= 1
          /\ ret.op \in {"close", "__exit__"} =>
                UNCHANGED <<_client, sessions, closeCalls>>]_vars

\* a second client was connected after the first was closed, and was closed
C7_Witness ==
    /\ ret.op = "close"
    /\ _client = None
    /\ sessions[1].state = "closed" /\ closeCalls[1] = 1
    /\ sessions[2].state = "closed" /\ closeCalls[2] = 1

\* C8 as stated: when input is polled or read, all the output that was
\* ready when the iteration began has been read and shown.
C8_AllReadyOutputShownBeforeInput ==
    sh.pc \in {"poll", "fb_input"} => sh.shown = sh.atTop

\* C8 as amended: when input is polled or read, the output that was ready
\* when the iteration began has been read and shown up to one chunk of 1024
\* bytes; the rest stays buffered.
C8_OneChunkShownBeforeInput ==
    sh.pc \in {"poll", "fb_input"} =>
        sh.shown = (IF sh.atTop <= RecvChunk THEN sh.atTop ELSE RecvChunk)

\* 1025 bytes were ready, 1024 were shown and one is still buffered when
\* input is polled
C8_Witness ==
    /\ sh.pc = "poll"
    /\ sh.atTop = RecvChunk + 1
    /\ sh.shown = RecvChunk
    /\ channel.ready >= 1

\* C9: at most one paramiko client of an SSHClient is open at any time.
C9_AtMostOneOpenSession ==
    Cardinality({i \in SessionIds : sessions[i].state = "open"}) <= 1

\* C10: the fallback branch runs in an iteration only when the poll of
\* standard input raised in that iteration.
C10_FallbackOnlyAfterFailedPoll ==
    sh.pc \in {"fb_input", "fb_drain"} => sh.pollRaised

====
